---- MODULE Spec2Model ----
(***************************************************************************)
(* Model of the Markdown preview pipeline of src/src/extension.js.         *)
(*                                                                         *)
(* A text is a sequence of characters.  A few multi-character literals the *)
(* code only ever handles as a unit are one element of the sequence: the   *)
(* fence marker of three backticks (written "FENCE"), "mermaid",           *)
(* "<!--PRESERVED_", "-->", the opening and closing tags the code writes,  *)
(* the scheme prefixes of image paths, the fixed parts of the document     *)
(* template.  Every other element is one character.                        *)
(***************************************************************************)
EXTENDS Integers, Sequences, FiniteSets, TLC

VARIABLES
    text,             \* document.getText(): the raw text of this pass
    raw,              \* the local `raw` of updateWebviewContent
    origin,           \* history: for each character of raw, its position in text (0: written by the pass)
    preservedBlocks,  \* the local `preservedBlocks` of updateWebviewContent
    extracted,        \* history: per extraction callback, the matched text, its positions, the index written
    headings,         \* the local `headings` of updateWebviewContent
    html,             \* the local `html` of updateWebviewContent
    tagLines,         \* history: for each heading tag the renderer emitted, the line of text it renders
    toc,              \* the value generateTOC returned
    renderer,         \* the Markdown renderer behind marked(): "identity", "marked", "escaping" or "throwing"
    document,         \* document.uri of the document of this pass
    workspaceFolders, \* vscode.workspace.workspaceFolders (the uris)
    conversionFails,  \* the images (counted from 1) for which asWebviewUri throws in this pass
    resolutions,      \* history: per image of this pass, its path, the result and the service calls made
    random,           \* the outcomes Math.random() produces next
    nonce,            \* the local `nonce` of updateWebviewContent
    returned,         \* history: the values getNonce returned during this pass
    webviewHtml,      \* panel.webview.html
    shown,            \* history: the error messages the running handler has shown
    currentPanel,     \* the `currentPanel` of activate: 0 (undefined) or a panel
    currentDocument,  \* the `currentDocument` of activate: NoDocument (undefined) or the uri of a document
    panels,           \* the webview panels that exist (created and not disposed)
    lastEvent,        \* history: the last command, change or closing the extension host delivered
    shownFrom,        \* history: the document and the text webviewHtml was assembled from
    sidebarOpen,      \* the page in the panel: body carries the class sidebar-open
    lastSidebarAction,\* history: the last click or key aimed at the sidebar of the page
    pc                \* position of the pass inside updateWebviewContent

vars ==
    <<text, raw, origin, preservedBlocks, extracted, headings, html, tagLines, toc, renderer,
      document, workspaceFolders, conversionFails, resolutions, random, nonce, returned,
      webviewHtml, shown, currentPanel, currentDocument, panels, lastEvent, shownFrom,
      sidebarOpen, lastSidebarAction, pc>>

\* what a pass is given: the document, the renderer and the services around it
given == <<text, renderer, document, workspaceFolders, conversionFails, random>>

\* the closure of activate and what the host has delivered
host == <<currentPanel, currentDocument, panels, lastEvent>>

\* the page the panel shows
page == <<shownFrom, sidebarOpen, lastSidebarAction>>

\* the locals of updateWebviewContent and its position
locals ==
    <<raw, origin, preservedBlocks, extracted, headings, html, tagLines, toc, resolutions, nonce,
      returned, shown, pc>>

-----------------------------------------------------------------------------
(* Bounds of the model *)

\* longest text of the exhaustive extraction specification
MaxLen == 7

\* most lines of a document of the document specification
MaxLines == 4

\* most headings of a heading list handed to generateTOC
MaxHeadings == 4

\* most image tags of a document of the image specification
MaxImages == 2

\* most panels that can exist side by side
MaxPanels == 2

\* Math.random() is modelled with this many equally spaced outcomes
RandomResolution == 64

\* largest step between two consecutive outcomes of a random stream
MaxStride == 2

-----------------------------------------------------------------------------
(* Characters *)

NL == "\n"
PhOpen == "<!--PRESERVED_"
PhClose == "-->"
\* three backticks
Fence == "FENCE"
Mermaid == "mermaid"
PreOpen == "<pre class=mermaid>"
PreClose == "</pre>"
\* `<img`, white space, `src=` as the renderer writes an image tag
ImgOpen == "<img src="
Quote == "\""
Http == "http://"
Https == "https://"
Data == "data:"
Slash == "/"
DotDot == ".."
\* a script tag without a nonce attribute, as a text can hold it
BareScript == "<script>"
EscapedScript == "&lt;script&gt;"
\* a script tag without a nonce attribute whose src is on the host the
\* content-restriction declaration lists
CdnHost == "https://cdn.jsdelivr.net"
CdnScript == "<script src=https://cdn.jsdelivr.net/x>"
EscapedCdnScript == "&lt;script src=https://cdn.jsdelivr.net/x&gt;"

Digits == <<"0", "1", "2", "3", "4", "5", "6", "7", "8", "9">>

DigitSet == {Digits[i] : i \in 1..10}

\* \s of the regular expressions, over the model's characters
IsWs(c) == c \in {" ", NL}

Min(S) == CHOOSE m \in S : \A k \in S : m <= k

Max(S) == CHOOSE m \in S : \A k \in S : m >= k

\* String(n) of a template literal: the decimal digits of n
RECURSIVE ToStr(_)
ToStr(n) == IF n < 10 THEN <<Digits[n + 1]>>
            ELSE ToStr(n \div 10) \o <<Digits[(n % 10) + 1]>>

DigitVal(c) == (CHOOSE i \in 1..10 : Digits[i] = c) - 1

\* parseInt of a string of decimal digits
RECURSIVE parseInt(_)
parseInt(ds) == IF Len(ds) = 0 THEN 0
                ELSE 10 * parseInt(SubSeq(ds, 1, Len(ds) - 1)) + DigitVal(ds[Len(ds)])

\* last position of the longest run of characters in S that starts at i (i - 1: empty run)
RECURSIVE RunEnd(_, _, _)
RunEnd(s, i, S) == IF i <= Len(s) /\ s[i] \in S THEN RunEnd(s, i + 1, S) ELSE i - 1

\* String.prototype.trim
RECURSIVE TrimLeft(_)
TrimLeft(s) == IF Len(s) > 0 /\ IsWs(s[1]) THEN TrimLeft(Tail(s)) ELSE s

RECURSIVE TrimRight(_)
TrimRight(s) == IF Len(s) > 0 /\ IsWs(s[Len(s)]) THEN TrimRight(SubSeq(s, 1, Len(s) - 1)) ELSE s

Trim(s) == TrimRight(TrimLeft(s))

\* every character the model's texts are made of
Chars == {"$", NL, " ", "x", "X", "!", "#", "-", Fence, Mermaid, PhOpen, PhClose,
          PreOpen, PreClose, "heading-", "<h", "</h", " id=", ">",
          ImgOpen, Quote, Http, Https, Data, Slash, DotDot, "a", BareScript, EscapedScript,
          CdnScript, EscapedCdnScript}
             \cup DigitSet

-----------------------------------------------------------------------------
(* Protected-region extraction: the three replace calls *)

NoMatch == [ok |-> FALSE, end |-> 0, code |-> <<>>]

IsDollars(s, q) == q + 1 <= Len(s) /\ s[q] = "$" /\ s[q + 1] = "$"

IsFence(s, q) == q <= Len(s) /\ s[q] = Fence

\* the closing delimiter of a pattern starts at position q
IsCloser(s, q, kind) == IF kind = "mermaid" THEN IsFence(s, q) ELSE IsDollars(s, q)

CloserLen(kind) == IF kind = "mermaid" THEN 1 ELSE 2

\* the `\s*\n([\s\S]*?)` + closer tail shared by the block-math and the mermaid
\* pattern, tried right after an opener that ends at position o.  \s* is greedy
\* and backtracks, so \n is the last newline of the whitespace run after the
\* opener; the lazy group ends at the first closer after that newline.
TailMatch(s, o, kind) ==
    LET r == RunEnd(s, o + 1, {" ", NL})
        nls == {j \in (o + 1)..r : s[j] = NL}
    IN  IF nls = {} THEN NoMatch
        ELSE LET n == Max(nls)
                 qs == {q \in (n + 1)..Len(s) : IsCloser(s, q, kind)}
             IN  IF qs = {} THEN NoMatch
                 ELSE [ok |-> TRUE, end |-> Min(qs) + CloserLen(kind) - 1,
                       code |-> SubSeq(s, n + 1, Min(qs) - 1)]

\* /\$\$\s*\n([\s\S]*?)\$\$/ tried at position i
BlockMathAt(s, i) ==
    IF IsDollars(s, i) THEN TailMatch(s, i + 1, "math-block") ELSE NoMatch

\* /\$([^$\n]+)\$/ tried at position i
InlineMathAt(s, i) ==
    IF s[i] # "$" THEN NoMatch
    ELSE LET r == RunEnd(s, i + 1, Chars \ {"$", NL})
         IN  IF r >= i + 1 /\ r + 1 <= Len(s) /\ s[r + 1] = "$"
             THEN [ok |-> TRUE, end |-> r + 1, code |-> SubSeq(s, i + 1, r)]
             ELSE NoMatch

\* /FENCEmermaid\s*\n([\s\S]*?)FENCE/ (FENCE: three backticks) tried at position i
MermaidAt(s, i) ==
    IF i + 1 <= Len(s) /\ s[i] = Fence /\ s[i + 1] = Mermaid
    THEN TailMatch(s, i + 1, "mermaid") ELSE NoMatch

MatchAt(s, i, kind) ==
    CASE kind = "math-block" -> BlockMathAt(s, i)
      [] kind = "math-inline" -> InlineMathAt(s, i)
      [] kind = "mermaid" -> MermaidAt(s, i)

\* the content the callback pushes
BlockContentNoNewline(kind, code) ==
    CASE kind = "math-block" -> <<"$", "$">> \o code \o <<"$", "$">>
      [] kind = "math-inline" -> <<"$">> \o code \o <<"$">>
      [] kind = "mermaid" -> <<PreOpen>> \o Trim(code) \o <<PreClose>>

BlockContent(kind, code) ==
    CASE kind = "math-block" -> <<"$", "$", NL>> \o code \o <<"$", "$">>
      [] kind = "math-inline" -> <<"$">> \o code \o <<"$">>
      [] kind = "mermaid" -> <<PreOpen>> \o Trim(code) \o <<PreClose>>

\* the index the callback writes, after its push
PlaceholderIndexBeforePush(blocks) == Len(blocks)

PlaceholderIndex(blocks) == Len(blocks) - 1

\* `<!--PRESERVED_${n}-->`
Placeholder(n) == <<PhOpen>> \o ToStr(n) \o <<PhClose>>

\* String.prototype.replace(/.../g, callback) from position i on: the leftmost
\* match is replaced by the callback's value and the scan goes on behind it
RECURSIVE ReplaceFrom(_, _, _, _, _)
ReplaceFrom(s, org, i, kind, acc) ==
    IF i > Len(s) THEN acc
    ELSE LET m == MatchAt(s, i, kind)
         IN  IF m.ok
             THEN LET pushed == Append(acc.blocks,
                                       [type |-> kind, content |-> BlockContent(kind, m.code)])
                      ph == Placeholder(PlaceholderIndex(pushed))
                  IN  ReplaceFrom(s, org, m.end + 1, kind,
                          [raw |-> acc.raw \o ph,
                           origin |-> acc.origin \o [k \in 1..Len(ph) |-> 0],
                           blocks |-> pushed,
                           extracted |-> Append(acc.extracted,
                               [type |-> kind,
                                matched |-> SubSeq(s, i, m.end),
                                code |-> m.code,
                                span |-> {org[j] : j \in i..m.end} \ {0},
                                index |-> parseInt(SubSeq(ph, 2, Len(ph) - 1))])])
             ELSE ReplaceFrom(s, org, i + 1, kind,
                      [acc EXCEPT !.raw = Append(@, s[i]), !.origin = Append(@, org[i])])

ExtractPass(s, org, kind, blocks, ext) ==
    ReplaceFrom(s, org, 1, kind, [raw |-> <<>>, origin |-> <<>>, blocks |-> blocks, extracted |-> ext])

-----------------------------------------------------------------------------
(* Heading scanner: extractHeadings *)

\* String.prototype.split("\n")
RECURSIVE Split(_)
Split(s) ==
    LET nls == {j \in 1..Len(s) : s[j] = NL}
    IN  IF nls = {} THEN <<s>>
        ELSE <<SubSeq(s, 1, Min(nls) - 1)>> \o Split(SubSeq(s, Min(nls) + 1, Len(s)))

\* line.match(/^FENCE/)
IsFenceLine(line) == Len(line) >= 1 /\ line[1] = Fence

\* line.match(/^(#{1,6})\s+(.+)$/): #{1,6} takes the whole run of #, \s+ the
\* whitespace run behind it, giving back one character when the line ends there
HeadingMatch(line) ==
    LET h == RunEnd(line, 1, {"#"})
        w == RunEnd(line, h + 1, {" ", NL})
    IN  IF h >= 1 /\ h <= 6 /\ w >= h + 1 /\ Len(line) >= h + 2
        THEN [ok |-> TRUE, level |-> h,
              rest |-> IF w < Len(line) THEN SubSeq(line, w + 1, Len(line))
                       ELSE <<line[Len(line)]>>]
        ELSE [ok |-> FALSE, level |-> 0, rest |-> <<>>]

\* toLowerCase, on the letters of the model
Lower(c) == IF c = "X" THEN "x" ELSE c

\* \w of the regular expressions
IsWord(c) == c \in {"x", "X", "_", Mermaid} \cup DigitSet

\* text.toLowerCase().replace(/[^\w\s-]/g, "").replace(/\s+/g, "-")
RECURSIVE Slug(_)
Slug(t) ==
    IF Len(t) = 0 THEN <<>>
    ELSE IF IsWs(t[1]) THEN <<"-">> \o Slug(SubSeq(t, RunEnd(t, 1, {" ", NL}) + 1, Len(t)))
    ELSE IF IsWord(t[1]) \/ t[1] = "-" THEN <<Lower(t[1])>> \o Slug(Tail(t))
    ELSE Slug(Tail(t))

\* `heading-${slug}-${index}`
HeadingIdNoIndex(t, index) == <<"heading-">> \o Slug(t)

HeadingId(t, index) == <<"heading-">> \o Slug(t) \o <<"-">> \o ToStr(index)

\* the forEach callback of extractHeadings on line `index` (0-based)
RECURSIVE ScanLinesNoToggle(_, _, _, _)
ScanLinesNoToggle(lines, index, insideCodeBlock, acc) ==
    IF index >= Len(lines) THEN acc
    ELSE LET line == lines[index + 1]
             m == HeadingMatch(line)
         IN  IF IsFenceLine(line)
             THEN ScanLinesNoToggle(lines, index + 1, insideCodeBlock, acc)
             ELSE IF ~insideCodeBlock /\ m.ok
             THEN ScanLinesNoToggle(lines, index + 1, insideCodeBlock,
                      Append(acc, [level |-> m.level, text |-> Trim(m.rest),
                                   id |-> HeadingId(Trim(m.rest), index), lineIndex |-> index]))
             ELSE ScanLinesNoToggle(lines, index + 1, insideCodeBlock, acc)

RECURSIVE ScanLines(_, _, _, _)
ScanLines(lines, index, insideCodeBlock, acc) ==
    IF index >= Len(lines) THEN acc
    ELSE LET line == lines[index + 1]
             m == HeadingMatch(line)
         IN  IF IsFenceLine(line)
             THEN ScanLines(lines, index + 1, ~insideCodeBlock, acc)
             ELSE IF ~insideCodeBlock /\ m.ok
             THEN ScanLines(lines, index + 1, insideCodeBlock,
                      Append(acc, [level |-> m.level, text |-> Trim(m.rest),
                                   id |-> HeadingId(Trim(m.rest), index), lineIndex |-> index]))
             ELSE ScanLines(lines, index + 1, insideCodeBlock, acc)

extractHeadings(t) == ScanLines(Split(t), 0, FALSE, <<>>)

-----------------------------------------------------------------------------
(* The external Markdown renderer, marked(raw) *)

\* the line of `t` that holds position p (0-based line index)
LineOf(t, p) == Cardinality({j \in 1..(p - 1) : t[j] = NL})

HOpen(level) == <<"<h", Digits[level + 1], ">">>

HClose(level) == <<"</h", Digits[level + 1], ">">>

\* What the model keeps of marked: outside a backtick fence a heading line
\* becomes <hN>text</hN> (marked 9 writes no id), every other character is
\* passed on.  `at` is the position in s of the first character of lines[k].
RECURSIVE MarkedLines(_, _, _, _, _, _)
MarkedLines(lines, k, at, org, t, inFence) ==
    IF k > Len(lines) THEN [html |-> <<>>, tagLines |-> <<>>]
    ELSE LET line == lines[k]
             m == HeadingMatch(line)
             sep == IF k < Len(lines) THEN <<NL>> ELSE <<>>
             rest == MarkedLines(lines, k + 1, at + Len(line) + 1, org, t,
                                 IF IsFenceLine(line) THEN ~inFence ELSE inFence)
         IN  IF ~IsFenceLine(line) /\ ~inFence /\ m.ok
             THEN [html |-> HOpen(m.level) \o Trim(m.rest) \o HClose(m.level) \o sep \o rest.html,
                   tagLines |-> <<LineOf(t, org[at])>> \o rest.tagLines]
             ELSE [html |-> line \o sep \o rest.html, tagLines |-> rest.tagLines]

\* a renderer that escapes the script markup of its input and passes on
\* every other character
Escape(s) ==
    [i \in 1..Len(s) |-> IF s[i] = BareScript THEN EscapedScript
                         ELSE IF s[i] = CdnScript THEN EscapedCdnScript ELSE s[i]]

marked(s, org, t, which) ==
    IF which = "identity" THEN [html |-> s, tagLines |-> <<>>]
    ELSE IF which = "escaping" THEN [html |-> Escape(s), tagLines |-> <<>>]
    ELSE MarkedLines(Split(s), 1, 1, org, t, FALSE)

-----------------------------------------------------------------------------
(* Heading-id injection *)

\* a replace that takes the last occurrence
ReplaceLast(s, pat, rep) ==
    LET at == {i \in 1..(Len(s) - Len(pat) + 1) : SubSeq(s, i, i + Len(pat) - 1) = pat}
    IN  IF at = {} THEN s
        ELSE SubSeq(s, 1, Max(at) - 1) \o rep \o SubSeq(s, Max(at) + Len(pat), Len(s))

\* String.prototype.replace(string, string): the first occurrence only
ReplaceFirst(s, pat, rep) ==
    LET at == {i \in 1..(Len(s) - Len(pat) + 1) : SubSeq(s, i, i + Len(pat) - 1) = pat}
    IN  IF at = {} THEN s
        ELSE SubSeq(s, 1, Min(at) - 1) \o rep \o SubSeq(s, Min(at) + Len(pat), Len(s))

\* `<h${heading.level} id="${heading.id}">`
HOpenWithId(level, id) == <<"<h", Digits[level + 1], " id=">> \o id \o <<">">>

\* headings.forEach(heading => html = html.replace(headingTag, headingTagWithId))
RECURSIVE InjectIds(_, _, _)
InjectIds(h, hs, k) ==
    IF k > Len(hs) THEN h
    ELSE InjectIds(ReplaceFirst(h, HOpen(hs[k].level), HOpenWithId(hs[k].level, hs[k].id)), hs, k + 1)

-----------------------------------------------------------------------------
(* Protected-region restoration *)

\* /<!--PRESERVED_(\d+)-->/ tried at position i
PlaceholderAt(s, i) ==
    IF s[i] # PhOpen THEN [ok |-> FALSE, end |-> 0, index |-> 0]
    ELSE LET d == RunEnd(s, i + 1, DigitSet)
         IN  IF d >= i + 1 /\ d + 1 <= Len(s) /\ s[d + 1] = PhClose
             THEN [ok |-> TRUE, end |-> d + 1, index |-> parseInt(SubSeq(s, i + 1, d))]
             ELSE [ok |-> FALSE, end |-> 0, index |-> 0]

\* html.replace(/<!--PRESERVED_(\d+)-->/g, callback): preservedBlocks[n] is
\* undefined for n >= length, and reading block.type then throws a TypeError
RECURSIVE RestoreFrom(_, _, _)
RestoreFrom(s, i, blocks) ==
    IF i > Len(s) THEN [ok |-> TRUE, html |-> <<>>]
    ELSE LET m == PlaceholderAt(s, i)
         IN  IF ~m.ok
             THEN LET r == RestoreFrom(s, i + 1, blocks)
                  IN  [ok |-> r.ok, html |-> <<s[i]>> \o r.html]
             ELSE IF m.index >= Len(blocks) THEN [ok |-> FALSE, html |-> <<>>]
             ELSE LET r == RestoreFrom(s, m.end + 1, blocks)
                  IN  [ok |-> r.ok, html |-> blocks[m.index + 1].content \o r.html]

Restore(s, blocks) == RestoreFrom(s, 1, blocks)

-----------------------------------------------------------------------------
(* Image paths: resolveImagePath *)

\* what panel.webview.asWebviewUri(uri).toString() puts before the path
WebviewUri == "webview-uri:"

FileUri(path) == [scheme |-> "file", path |-> path]

\* String.prototype.lastIndexOf (0-based, -1: absent)
LastIndexOf(s, c) ==
    LET at == {i \in 1..Len(s) : s[i] = c}
    IN  IF at = {} THEN -1 ELSE Max(at) - 1

\* String.prototype.substring(0, end): a negative end counts as 0
Substring(s, end) == SubSeq(s, 1, IF end < 0 THEN 0 ELSE end)

\* Uri.with({ path }): a file URI without a path gets the path "/"
With(uri, path) ==
    [scheme |-> uri.scheme,
     path |-> IF uri.scheme = "file" /\ path = <<>> THEN <<Slash>> ELSE path]

\* the segments of a path, between its slashes
RECURSIVE Segments(_, _, _)
Segments(p, i, cur) ==
    IF i > Len(p) THEN <<cur>>
    ELSE IF p[i] = Slash THEN <<cur>> \o Segments(p, i + 1, <<>>)
    ELSE Segments(p, i + 1, Append(cur, p[i]))

\* posix normalisation of the segments of an absolute path
RECURSIVE Normalize(_, _, _)
Normalize(segs, k, stack) ==
    IF k > Len(segs) THEN stack
    ELSE IF segs[k] = <<>> THEN Normalize(segs, k + 1, stack)
    ELSE IF segs[k] = <<DotDot>>
         THEN Normalize(segs, k + 1, IF stack = <<>> THEN <<>> ELSE SubSeq(stack, 1, Len(stack) - 1))
    ELSE Normalize(segs, k + 1, Append(stack, segs[k]))

RECURSIVE PathOf(_, _)
PathOf(stack, k) ==
    IF k > Len(stack) THEN <<>> ELSE <<Slash>> \o stack[k] \o PathOf(stack, k + 1)

\* vscode.Uri.joinPath(base, path): throws for a base without a path
JoinPath(base, path) ==
    IF base.path = <<>> THEN [ok |-> FALSE, uri |-> base]
    ELSE LET stack == Normalize(Segments(base.path \o <<Slash>> \o path, 1, <<>>), 1, <<>>)
         IN  [ok |-> TRUE,
              uri |-> [scheme |-> base.scheme,
                       path |-> IF stack = <<>> THEN <<Slash>> ELSE PathOf(stack, 1)]]

\* panel.webview.asWebviewUri(uri).toString()
AsWebviewUri(uri) == <<WebviewUri>> \o uri.path

\* the scheme test without its third alternative
StartsWithSchemeNoData(p) == Len(p) >= 1 /\ p[1] \in {Http, Https}

\* documentPath.with({ path: documentPath.path.substring(0, documentPath.path.lastIndexOf("/")) })
DocumentDir(doc) == With(doc, Substring(doc.path, LastIndexOf(doc.path, Slash)))

\* imagePath.startsWith("http://") || ... "https://" ... || ... "data:"
StartsWithScheme(p) == Len(p) >= 1 /\ p[1] \in {Http, Https, Data}

StartsWithSlash(p) == Len(p) >= 1 /\ p[1] = Slash

Unresolved(imagePath, calls) == [result |-> imagePath, calls |-> calls]

\* resolveImagePath with the rule for absolute paths tried for every path
RuleForSlashAlways(imagePath) == TRUE

\* if (imagePath.startsWith("/"))
RuleForSlash(imagePath) == StartsWithSlash(imagePath)

\* the catch of resolveImagePath with the error passed on
CatchThrows(imagePath, calls) == [result |-> <<"throw">>, calls |-> calls]

\* catch (error) { console.error(...); return imagePath; }
Catch(imagePath, calls) == Unresolved(imagePath, calls)

\* resolveImagePath(imagePath, document, panel); `folders` is
\* vscode.workspace.workspaceFolders, `throws` tells whether asWebviewUri
\* throws for this call.  `calls` lists the calls made to the URI services.
resolveImagePath(imagePath, doc, folders, throws) ==
    IF StartsWithScheme(imagePath) THEN Unresolved(imagePath, <<>>)
    ELSE LET documentDir == DocumentDir(doc)
         IN  IF RuleForSlash(imagePath) /\ Len(folders) = 0 THEN Unresolved(imagePath, <<>>)
             ELSE LET base == IF RuleForSlash(imagePath) THEN folders[1] ELSE documentDir
                      j == JoinPath(base, imagePath)
                      join == [op |-> "joinPath", uri |-> base, path |-> imagePath]
                      convert == [op |-> "asWebviewUri", uri |-> j.uri, path |-> <<>>]
                  IN  IF ~j.ok THEN Catch(imagePath, <<join>>)
                      ELSE IF throws THEN Catch(imagePath, <<join, convert>>)
                      ELSE [result |-> AsWebviewUri(j.uri), calls |-> <<join, convert>>]

\* /<img\s+src="([^"]+)"/ tried at position i
ImageAt(s, i) ==
    IF i + 1 <= Len(s) /\ s[i] = ImgOpen /\ s[i + 1] = Quote
    THEN LET r == RunEnd(s, i + 2, Chars \ {Quote})
         IN  IF r >= i + 2 /\ r + 1 <= Len(s) /\ s[r + 1] = Quote
             THEN [ok |-> TRUE, end |-> r + 1, code |-> SubSeq(s, i + 2, r)]
             ELSE NoMatch
    ELSE NoMatch

\* html.replace(/<img\s+src="([^"]+)"/g, callback): `n` counts the images
\* handed to the callback so far, asWebviewUri throws for those in `fails`
RECURSIVE ResolveFrom(_, _, _, _, _, _)
ResolveFrom(s, i, n, doc, folders, fails) ==
    IF i > Len(s) THEN [html |-> <<>>, resolutions |-> <<>>, ok |-> TRUE]
    ELSE LET m == ImageAt(s, i)
         IN  IF ~m.ok
             THEN LET r == ResolveFrom(s, i + 1, n, doc, folders, fails)
                  IN  [html |-> <<s[i]>> \o r.html, resolutions |-> r.resolutions, ok |-> r.ok]
             ELSE LET res == resolveImagePath(m.code, doc, folders, (n + 1) \in fails)
                      r == ResolveFrom(s, m.end + 1, n + 1, doc, folders, fails)
                  IN  IF res.result = <<"throw">>
                      THEN [html |-> <<>>, ok |-> FALSE,
                            resolutions |-> <<[path |-> m.code, result |-> res.result, calls |-> res.calls]>>]
                      ELSE [html |-> <<ImgOpen, Quote>> \o res.result \o <<Quote>> \o r.html,
                            resolutions |-> <<[path |-> m.code, result |-> res.result, calls |-> res.calls]>>
                                               \o r.resolutions,
                            ok |-> r.ok]

-----------------------------------------------------------------------------
(* Table of contents: generateTOC *)

UlOpen == "<ul class=toc-list>"
UlClose == "</ul>"
NoHeadings == "<p>No headings found</p>"

TocItem(h) ==
    <<"<li class=toc-item toc-level-", Digits[h.level + 1], "><a href=#">> \o h.id
        \o <<" class=toc-link>">> \o h.text \o <<"</a></li>">>

\* the closing loop leaving after one turn
CloseLevelsOnce(cur, level) == IF cur >= level THEN <<UlClose>> ELSE <<>>

\* while (currentLevel >= level) { tocHtml += "</ul>"; currentLevel--; }
RECURSIVE CloseLevels(_, _)
CloseLevels(cur, level) ==
    IF cur >= level THEN <<UlClose>> \o CloseLevels(cur - 1, level) ELSE <<>>

\* while (currentLevel < bound) { tocHtml += "<ul ...>"; currentLevel++; }
OpenLevelsNone(cur, bound) == <<>>

OpenLevelsOnce(cur, bound) == IF cur < bound THEN <<UlOpen>> ELSE <<>>

RECURSIVE OpenLevels(_, _)
OpenLevels(cur, bound) ==
    IF cur < bound THEN <<UlOpen>> \o OpenLevels(cur + 1, bound) ELSE <<>>

\* the forEach callback and the closing loop of generateTOC
RECURSIVE TocLoop(_, _, _)
TocLoop(hs, k, cur) ==
    IF k > Len(hs) THEN CloseLevels(cur, 1)
    ELSE LET level == hs[k].level
             c1 == IF cur >= level THEN level - 1 ELSE cur
             c2 == IF c1 < level - 1 THEN level - 1 ELSE c1
             c3 == IF c2 < level THEN c2 + 1 ELSE c2
         IN  CloseLevels(cur, level) \o OpenLevels(c1, level - 1)
                 \o (IF c2 < level THEN <<UlOpen>> ELSE <<>>)
                 \o TocItem(hs[k]) \o TocLoop(hs, k + 1, c3)

\* generateTOC without the early return of line 283
generateTOCNoEarlyReturn(hs) == <<UlOpen>> \o TocLoop(hs, 1, 0)

generateTOC(hs) ==
    IF Len(hs) = 0 THEN <<NoHeadings>> ELSE <<UlOpen>> \o TocLoop(hs, 1, 0)

-----------------------------------------------------------------------------
(* Security token: getNonce *)

\* for (let i = 0; i < 32; i++)
NonceLength == 32

\* const possible = "ABC...XYZabc...xyz0123456789"
possible ==
    <<"A", "B", "C", "D", "E", "F", "G", "H", "I", "J", "K", "L", "M",
      "N", "O", "P", "Q", "R", "S", "T", "U", "V", "W", "X", "Y", "Z",
      "a", "b", "c", "d", "e", "f", "g", "h", "i", "j", "k", "l", "m",
      "n", "o", "p", "q", "r", "s", "t", "u", "v", "w", "x", "y", "z",
      "0", "1", "2", "3", "4", "5", "6", "7", "8", "9">>

\* String.prototype.charAt (0-based): the empty string outside the string
CharAt(s, i) == IF 0 <= i /\ i < Len(s) THEN <<s[i + 1]>> ELSE <<>>

\* Math.random() returns n / RandomResolution for some n of Outcomes: every
\* value is in [0, 1)
Outcomes == 0..(RandomResolution - 1)

\* Math.floor(Math.random() * (possible.length + 1))
FloorIndexOffByOne(n) == (n * (Len(possible) + 1)) \div RandomResolution

\* Math.floor(Math.random() * possible.length)
FloorIndex(n) == (n * Len(possible)) \div RandomResolution

\* the NonceLength outcomes a random source produces from `seed` on
Stream(seed, stride) ==
    [i \in 1..NonceLength |-> (seed + (i - 1) * stride) % RandomResolution]

RandomStreams == {Stream(s, t) : s \in Outcomes, t \in 0..MaxStride}

\* the loop of getNonce: text += possible.charAt(...)
RECURSIVE NonceLoop(_, _, _)
NonceLoop(stream, i, txt) ==
    IF i < NonceLength
    THEN NonceLoop(stream, i + 1, txt \o CharAt(possible, FloorIndex(stream[i + 1])))
    ELSE txt

getNonce(stream) == NonceLoop(stream, 0, <<>>)

-----------------------------------------------------------------------------
(* The assembled document: getWebviewContent *)

\* <meta http-equiv="Content-Security-Policy" content="... script-src 'nonce-
CspOpen == "<meta csp script-src nonce-"
\* ' https://cdn.jsdelivr.net; ...">
CspClose == " https://cdn.jsdelivr.net>"
AsideOpen == "<aside>"
AsideClose == "</aside>"
MainOpen == "<main>"
MainClose == "</main>"

\* the three script tags of the template, up to their nonce attribute
ScriptOpeners ==
    <<"<script async src=mathjax nonce=", "<script src=highlight nonce=",
      "<script type=module nonce=">>

\* a script tag of the template with a nonce written into the source
ScriptTagFixed(open, token) == <<open, Quote, "A", Quote, ">">>

\* <script ... nonce="${nonce}">
ScriptTag(open, token) == <<open, Quote>> \o token \o <<Quote, ">">>

getWebviewContent(markdownHtml, token, hs) ==
    <<CspOpen>> \o token \o <<CspClose, AsideOpen>> \o generateTOC(hs)
        \o <<AsideClose, MainOpen>> \o markdownHtml \o <<MainClose>>
        \o ScriptTag(ScriptOpeners[1], token) \o ScriptTag(ScriptOpeners[2], token)
        \o ScriptTag(ScriptOpeners[3], token)

-----------------------------------------------------------------------------
(* Inputs *)

\* every text of at most MaxLen characters over the math delimiters, white
\* space and one ordinary character
MathChars == {"$", NL, " ", "x"}

MathTexts == UNION {[1..n -> MathChars] : n \in 0..MaxLen}

\* lines a document is made of: headings, a fence, a mermaid opener, inline
\* math, a block-math delimiter, a placeholder-shaped comment, plain text
LineVocab ==
    { <<"#", " ", "x">>,
      <<"#", " ", "X", "!">>,
      <<"#", "#", " ", "x", " ", "1">>,
      <<Fence>>,
      <<Fence, Mermaid>>,
      <<"$", "x", "$">>,
      <<"$", "$">>,
      <<PhOpen, "0", PhClose>>,
      <<"x">> }

RECURSIVE Join(_)
Join(ls) == IF Len(ls) = 0 THEN <<>>
            ELSE IF Len(ls) = 1 THEN ls[1]
            ELSE ls[1] \o <<NL>> \o Join(Tail(ls))

Docs == {Join(ls) : ls \in UNION {[1..n -> LineVocab] : n \in 0..MaxLines}}

\* heading lists as extractHeadings returns them for consecutive heading lines
HeadingList(levels) ==
    [k \in 1..Len(levels) |->
        [level |-> levels[k], text |-> <<"x">>, id |-> HeadingId(<<"x">>, k - 1), lineIndex |-> k - 1]]

HeadingLists == {HeadingList(lv) : lv \in UNION {[1..n -> 1..6] : n \in 0..MaxHeadings}}

\* image paths: with a scheme, absolute, relative, relative through the parent
PathVocab ==
    {<<Http, "a">>, <<Https, "a">>, <<Data, "a">>, <<Slash, "a">>, <<"a">>, <<DotDot, Slash, "a">>}

ImageTag(path) == <<ImgOpen, Quote>> \o path \o <<Quote>>

\* documents of at most MaxImages lines, each an image tag
ImageDocs ==
    UNION {{Join([k \in 1..n |-> ImageTag(ps[k])]) : ps \in [1..n -> PathVocab]} : n \in 0..MaxImages}

\* a document in a directory, a document in the root directory, an untitled
\* document (its uri has no slash)
Documents ==
    {FileUri(<<Slash, "w", Slash, "d", Slash, "x">>), FileUri(<<Slash, "x">>),
     [scheme |-> "untitled", path |-> <<"x">>]}

\* no workspace folder, one, two
FolderLists == {<<>>, <<FileUri(<<Slash, "w">>)>>, <<FileUri(<<Slash, "w">>), FileUri(<<Slash, "v">>)>>}

\* the texts of the session specification: plain text, a heading, script
\* markup in the text and inside inline math, a placeholder-shaped comment,
\* an image
SessionTexts ==
    {<<"x">>, <<"#", " ", "x">>, <<BareScript>>, <<"$", BareScript, "$">>,
     <<PhOpen, "0", PhClose>>, ImageTag(<<"a">>)}

SessionRenderers == {"escaping", "throwing"}

SessionStreams == {Stream(0, 1), Stream(RandomResolution - 1, 0)}

-----------------------------------------------------------------------------
(* One render pass: updateWebviewContent *)

\* the order of the three extraction passes
PassOrderInlineFirst == <<"math-inline", "math-block", "mermaid">>

PassOrder == <<"math-block", "math-inline", "mermaid">>

ErrorMessage == "Failed to render markdown"

\* a catch block that shows what the pass has built so far
CatchShowsPartial(shownHtml, partial) == partial

\* catch (error) { vscode.window.showErrorMessage(...) }: panel.webview.html
\* is not assigned
CatchKeeps(shownHtml, partial) == shownHtml

\* the token of a pass kept from the document on display, when there is one
NonceKept(fresh, shownHtml) ==
    IF Len(shownHtml) = 0 THEN fresh ELSE SubSeq(shownHtml, 2, 1 + NonceLength)

\* const nonce = getNonce();
NonceOfPass(fresh, shownHtml) == fresh

\* let currentDocument = undefined;
NoDocument == [scheme |-> "undefined", path |-> <<>>]

NoSource == [uri |-> NoDocument, text |-> <<>>]

NoEvent == [kind |-> "none", uri |-> NoDocument, tick |-> 0]

\* <body>: the template writes the body without the class sidebar-open
BodyHasSidebarOpen == FALSE

\* no panel: let currentPanel = undefined; let currentDocument = undefined;
NoPanel ==
    /\ currentPanel = 0
    /\ currentDocument = NoDocument
    /\ panels = {}
    /\ lastEvent = NoEvent
    /\ shownFrom = NoSource
    /\ sidebarOpen = FALSE
    /\ lastSidebarAction = "none"

\* the command has created panel 1 for `document` and calls
\* updateWebviewContent for the first time
OnePanel ==
    /\ currentPanel = 1
    /\ currentDocument = document
    /\ panels = {1}
    /\ lastEvent = [kind |-> "command", uri |-> document, tick |-> 0]
    /\ shownFrom = NoSource
    /\ sidebarOpen = FALSE
    /\ lastSidebarAction = "none"

\* the locals of updateWebviewContent before its first statement
FreshLocals ==
    /\ raw = <<>>
    /\ origin = <<>>
    /\ preservedBlocks = <<>>
    /\ extracted = <<>>
    /\ html = <<>>
    /\ tagLines = <<>>
    /\ toc = <<>>
    /\ resolutions = <<>>
    /\ nonce = <<>>
    /\ returned = <<>>
    /\ shown = <<>>

\* a document below a directory of the file system
DocumentInFolder == FileUri(<<Slash, "w", Slash, "d", Slash, "x">>)

InitPass(texts, which) ==
    /\ text \in texts
    /\ renderer = which
    /\ document = DocumentInFolder
    /\ workspaceFolders = <<>>
    /\ conversionFails = {}
    /\ random = Stream(0, 1)
    /\ webviewHtml = <<>>
    /\ OnePanel
    /\ FreshLocals
    /\ headings = <<>>
    /\ pc = "start"

\* let raw = document.getText(); const headings = extractHeadings(raw);
ExtractHeadings ==
    /\ pc = "start"
    /\ raw' = text
    /\ origin' = [i \in 1..Len(text) |-> i]
    /\ headings' = extractHeadings(text)
    /\ pc' = "scanned"
    /\ UNCHANGED <<given, host, page, preservedBlocks, extracted, html, tagLines, toc, resolutions, nonce,
                   returned, webviewHtml, shown>>

ExtractStep(from, to, kind) ==
    /\ pc = from
    /\ LET r == ExtractPass(raw, origin, kind, preservedBlocks, extracted)
       IN  /\ raw' = r.raw
           /\ origin' = r.origin
           /\ preservedBlocks' = r.blocks
           /\ extracted' = r.extracted
    /\ pc' = to
    /\ UNCHANGED <<given, host, page, headings, html, tagLines, toc, resolutions, nonce, returned,
                   webviewHtml, shown>>

ExtractBlockMath == ExtractStep("scanned", "block", PassOrder[1])

ExtractInlineMath == ExtractStep("block", "inline", PassOrder[2])

ExtractMermaid == ExtractStep("inline", "extracted", PassOrder[3])

\* let html = marked(raw); an exception of the renderer is caught by the
\* catch of updateWebviewContent
RenderMarkdown ==
    /\ pc = "extracted"
    /\ IF renderer = "throwing"
       THEN /\ pc' = "failed"
            /\ shown' = Append(shown, ErrorMessage)
            /\ webviewHtml' = CatchKeeps(webviewHtml, raw)
            /\ UNCHANGED <<html, tagLines>>
       ELSE /\ LET r == marked(raw, origin, text, renderer)
               IN  /\ html' = r.html
                   /\ tagLines' = r.tagLines
            /\ pc' = "rendered"
            /\ UNCHANGED <<shown, webviewHtml>>
    /\ UNCHANGED <<given, host, page, raw, origin, preservedBlocks, extracted, headings, toc, resolutions,
                   nonce, returned>>

InjectHeadingIds ==
    /\ pc = "rendered"
    /\ html' = InjectIds(html, headings, 1)
    /\ pc' = "injected"
    /\ UNCHANGED <<given, host, page, raw, origin, preservedBlocks, extracted, headings, tagLines, toc,
                   resolutions, nonce, returned, webviewHtml, shown>>

\* a TypeError of the restoration callback is caught by the catch of
\* updateWebviewContent: the pass ends without a new document
RestoreBlocks ==
    /\ pc = "injected"
    /\ LET r == Restore(html, preservedBlocks)
       IN  IF r.ok
           THEN /\ html' = r.html
                /\ pc' = "restored"
                /\ UNCHANGED <<shown, webviewHtml>>
           ELSE /\ html' = html
                /\ pc' = "failed"
                /\ shown' = Append(shown, ErrorMessage)
                /\ webviewHtml' = CatchKeeps(webviewHtml, html)
    /\ UNCHANGED <<given, host, page, raw, origin, preservedBlocks, extracted, headings, tagLines, toc,
                   resolutions, nonce, returned>>

\* html = html.replace(/<img\s+src="([^"]+)"/g, ...): an exception that
\* leaves resolveImagePath is caught by the catch of updateWebviewContent
ResolveImages ==
    /\ pc = "restored"
    /\ LET r == ResolveFrom(html, 1, 0, document, workspaceFolders, conversionFails)
       IN  /\ resolutions' = r.resolutions
           /\ IF r.ok
              THEN /\ html' = r.html
                   /\ pc' = "resolved"
                   /\ UNCHANGED <<shown, webviewHtml>>
              ELSE /\ html' = html
                   /\ pc' = "failed"
                   /\ shown' = Append(shown, ErrorMessage)
                   /\ webviewHtml' = CatchKeeps(webviewHtml, html)
    /\ UNCHANGED <<given, host, page, raw, origin, preservedBlocks, extracted, headings, tagLines, toc,
                   nonce, returned>>

\* const nonce = getNonce();
GenerateNonce ==
    /\ pc = "resolved"
    /\ returned' = Append(returned, getNonce(random))
    /\ nonce' = NonceOfPass(getNonce(random), webviewHtml)
    /\ pc' = "nonce"
    /\ UNCHANGED <<given, host, page, raw, origin, preservedBlocks, extracted, headings, html, tagLines, toc,
                   resolutions, webviewHtml, shown>>

\* panel.webview.html = getWebviewContent(html, nonce, headings), which
\* calls generateTOC(headings)
Assemble ==
    /\ pc = "nonce"
    /\ toc' = generateTOC(headings)
    /\ webviewHtml' = getWebviewContent(html, nonce, headings)
    /\ shownFrom' = [uri |-> document, text |-> text]
    /\ sidebarOpen' = BodyHasSidebarOpen
    /\ pc' = "done"
    /\ UNCHANGED <<given, host, lastSidebarAction, raw, origin, preservedBlocks, extracted, headings, html, tagLines,
                   resolutions, nonce, returned, shown>>

NextPass ==
    \/ ExtractHeadings
    \/ ExtractBlockMath
    \/ ExtractInlineMath
    \/ ExtractMermaid
    \/ RenderMarkdown
    \/ InjectHeadingIds
    \/ RestoreBlocks
    \/ ResolveImages
    \/ GenerateNonce
    \/ Assemble

\* every math text, rendered by the identity
InitExtract == InitPass(MathTexts, "identity")

SpecExtract == InitExtract /\ [][NextPass]_vars

\* every document, rendered by the identity
InitIdentity == InitPass(Docs, "identity")

SpecIdentity == InitIdentity /\ [][NextPass]_vars

\* every document, rendered by marked
InitMarked == InitPass(Docs, "marked")

SpecMarked == InitMarked /\ [][NextPass]_vars

-----------------------------------------------------------------------------
(* generateTOC on its own *)

InitTOC ==
    /\ headings \in HeadingLists
    /\ pc = "toc"
    /\ text = <<>>
    /\ renderer = "identity"
    /\ document = DocumentInFolder
    /\ workspaceFolders = <<>>
    /\ conversionFails = {}
    /\ random = Stream(0, 1)
    /\ webviewHtml = <<>>
    /\ NoPanel
    /\ FreshLocals

CallGenerateTOC ==
    /\ pc = "toc"
    /\ toc' = generateTOC(headings)
    /\ pc' = "toc-done"
    /\ UNCHANGED <<given, host, page, raw, origin, preservedBlocks, extracted, headings, html, tagLines,
                   resolutions, nonce, returned, webviewHtml, shown>>

NextTOC == CallGenerateTOC

SpecTOC == InitTOC /\ [][NextTOC]_vars

-----------------------------------------------------------------------------
(* Image resolution in every environment *)

InitImages ==
    /\ text \in ImageDocs
    /\ renderer = "identity"
    /\ document \in Documents
    /\ workspaceFolders \in FolderLists
    /\ conversionFails \in SUBSET (1..MaxImages)
    /\ random = Stream(0, 1)
    /\ webviewHtml = <<>>
    /\ OnePanel
    /\ FreshLocals
    /\ headings = <<>>
    /\ pc = "start"

SpecImages == InitImages /\ [][NextPass]_vars

-----------------------------------------------------------------------------
(* getNonce on its own *)

InitNonce ==
    /\ random \in RandomStreams
    /\ pc = "nonce-call"
    /\ text = <<>>
    /\ renderer = "identity"
    /\ document = DocumentInFolder
    /\ workspaceFolders = <<>>
    /\ conversionFails = {}
    /\ webviewHtml = <<>>
    /\ NoPanel
    /\ FreshLocals
    /\ headings = <<>>

CallGetNonce ==
    /\ pc = "nonce-call"
    /\ nonce' = getNonce(random)
    /\ returned' = Append(returned, getNonce(random))
    /\ pc' = "nonce-done"
    /\ UNCHANGED <<given, host, page, raw, origin, preservedBlocks, extracted, headings, html, tagLines, toc,
                   resolutions, webviewHtml, shown>>

NextNonce == CallGetNonce

SpecNonce == InitNonce /\ [][NextNonce]_vars

-----------------------------------------------------------------------------
(* A session: one panel, a pass per command and per change of the document *)

InitSession ==
    /\ text \in SessionTexts
    /\ renderer \in SessionRenderers
    /\ document \in {DocumentInFolder}
    /\ workspaceFolders = <<>>
    /\ conversionFails \in {{}, {1}}
    /\ random \in SessionStreams
    /\ webviewHtml = <<>>
    /\ OnePanel
    /\ FreshLocals
    /\ headings = <<>>
    /\ pc = "start"

\* a block list that lives outside the function and is never emptied
BlockListKept(old) == old

\* const preservedBlocks = [];
BlockListOfPass(old) == <<>>

\* updateWebviewContent is entered: its locals are new
EnterPass ==
    /\ raw' = <<>>
    /\ origin' = <<>>
    /\ preservedBlocks' = BlockListOfPass(preservedBlocks)
    /\ extracted' = <<>>
    /\ headings' = <<>>
    /\ html' = <<>>
    /\ tagLines' = <<>>
    /\ toc' = <<>>
    /\ resolutions' = <<>>
    /\ nonce' = <<>>
    /\ returned' = <<>>
    /\ shown' = <<>>
    /\ pc' = "start"

\* the sets a session draws its documents, texts and service answers from
SessionInputs ==
    [documents |-> {DocumentInFolder, FileUri(<<Slash, "x">>)}, texts |-> SessionTexts,
     renderers |-> SessionRenderers, fails |-> {{}, {1}}, streams |-> SessionStreams]

\* what the services around a pass do is not in the hands of the extension
Surroundings(c) ==
    /\ renderer' \in c.renderers
    /\ conversionFails' \in c.fails
    /\ random' \in c.streams
    /\ UNCHANGED workspaceFolders

\* no handler of the extension is running
AtRest == pc \in {"idle", "done", "failed"}

\* a test of currentPanel that never finds a panel
PanelExistsNever(p) == FALSE

\* if (currentPanel)
PanelExists(p) == p # 0

\* currentDocument && ...
DocumentKnown(d) == d # NoDocument

\* a comparison that takes every document for the current one
SameUriAlways(a, b) == TRUE

\* e.document.uri.toString() === currentDocument.uri.toString()
SameUri(a, b) == a = b

\* a dispose handler that leaves currentDocument as it is
DisposedDocumentKept(d) == d

\* currentDocument = undefined;
DisposedDocument(d) == NoDocument

Delivered(kind, uri) == lastEvent' = [kind |-> kind, uri |-> uri, tick |-> 1 - lastEvent.tick]

\* the command with a Markdown editor active and the panel open:
\* currentPanel.reveal(...); currentDocument = doc;
\* updateWebviewContent(currentPanel, doc)
ShowPreviewOn(c) ==
    /\ AtRest
    /\ PanelExists(currentPanel)
    /\ \E d \in c.documents :
          /\ document' = d
          /\ currentDocument' = d
          /\ Delivered("command", d)
    /\ text' \in c.texts
    /\ Surroundings(c)
    /\ EnterPass
    /\ UNCHANGED <<currentPanel, panels, webviewHtml, page>>

ShowPreview == ShowPreviewOn(SessionInputs)

\* the onDidChangeTextDocument handler, for a change of document d
ChangeTextDocumentOn(c) ==
    /\ AtRest
    /\ \E d \in c.documents :
          /\ Delivered("change", d)
          /\ IF PanelExists(currentPanel) /\ DocumentKnown(currentDocument) /\ SameUri(d, currentDocument)
             THEN /\ document' = d
                  /\ text' \in c.texts
                  /\ Surroundings(c)
                  /\ EnterPass
                  /\ UNCHANGED <<currentPanel, currentDocument, panels, webviewHtml, page>>
             ELSE UNCHANGED <<given, locals, currentPanel, currentDocument, panels, webviewHtml, page>>

ChangeTextDocument == ChangeTextDocumentOn(SessionInputs)

NextSession ==
    \/ NextPass
    \/ ShowPreview
    \/ ChangeTextDocument

SpecSession == InitSession /\ [][NextSession]_vars

-----------------------------------------------------------------------------
(* The preview: the command, changes of documents, the panel and its page *)

PreviewTexts ==
    {<<"x">>, <<PhOpen, "0", PhClose>>, <<"$", BareScript, "$">>, <<"$", CdnScript, "$">>}

PreviewInputs ==
    [documents |-> {DocumentInFolder, FileUri(<<Slash, "x">>)}, texts |-> PreviewTexts,
     renderers |-> {"escaping", "throwing"}, fails |-> {{}}, streams |-> {Stream(0, 1)}]

\* activate has run, the command has not
InitPreview ==
    /\ text = <<>>
    /\ renderer = "escaping"
    /\ document = NoDocument
    /\ workspaceFolders = <<>>
    /\ conversionFails = {}
    /\ random = Stream(0, 1)
    /\ webviewHtml = <<>>
    /\ NoPanel
    /\ FreshLocals
    /\ headings = <<>>
    /\ pc = "idle"

\* the command without an active editor, or with an editor of another
\* language: an error message, nothing else
ShowPreviewRejected ==
    /\ AtRest
    /\ \E message \in {"No active editor", "Not a Markdown file"} : shown' = <<message>>
    /\ Delivered("command", NoDocument)
    /\ UNCHANGED <<given, raw, origin, preservedBlocks, extracted, headings, html, tagLines, toc,
                   resolutions, nonce, returned, pc, currentPanel, currentDocument, panels,
                   webviewHtml, page>>

\* the command with a Markdown editor active and no panel open:
\* currentPanel = createWebviewPanel(...); currentDocument = doc;
\* updateWebviewContent(currentPanel, doc); currentPanel.onDidDispose(...)
CreatePreviewOn(c) ==
    /\ AtRest
    /\ ~PanelExists(currentPanel)
    /\ (1..MaxPanels) \ panels # {}
    /\ LET new == Min((1..MaxPanels) \ panels)
       IN  /\ panels' = panels \cup {new}
           /\ currentPanel' = new
    /\ \E d \in c.documents :
          /\ document' = d
          /\ currentDocument' = d
          /\ Delivered("command", d)
    /\ text' \in c.texts
    /\ Surroundings(c)
    /\ EnterPass
    /\ webviewHtml' = <<>>
    /\ shownFrom' = NoSource
    /\ sidebarOpen' = FALSE
    /\ lastSidebarAction' = "none"

\* the user closes a panel; its onDidDispose handler runs:
\* currentPanel = undefined; currentDocument = undefined;
ClosePanel ==
    /\ AtRest
    /\ \E p \in panels : panels' = panels \ {p}
    /\ currentPanel' = 0
    /\ currentDocument' = DisposedDocument(currentDocument)
    /\ Delivered("close", NoDocument)
    /\ webviewHtml' = <<>>
    /\ shownFrom' = NoSource
    /\ sidebarOpen' = FALSE
    /\ lastSidebarAction' = "none"
    /\ UNCHANGED <<given, locals>>

\* a page is on display
PageShown == currentPanel \in panels /\ Len(webviewHtml) > 0

\* toggleBtn click: document.body.classList.add('sidebar-open')
ClickToggle ==
    /\ PageShown
    /\ sidebarOpen' = TRUE
    /\ lastSidebarAction' = "toggle"
    /\ UNCHANGED <<given, host, locals, webviewHtml, shownFrom>>

\* closeBtn click: document.body.classList.remove('sidebar-open')
ClickClose ==
    /\ PageShown
    /\ sidebarOpen' = FALSE
    /\ lastSidebarAction' = "close"
    /\ UNCHANGED <<given, host, locals, webviewHtml, shownFrom>>

\* overlay click: document.body.classList.remove('sidebar-open')
ClickOverlay ==
    /\ PageShown
    /\ sidebarOpen' = FALSE
    /\ lastSidebarAction' = "overlay"
    /\ UNCHANGED <<given, host, locals, webviewHtml, shownFrom>>

\* keydown: if (e.key === 'Escape') document.body.classList.remove('sidebar-open')
KeyDown ==
    /\ PageShown
    /\ \E key \in {"Escape", "Enter"} :
          IF key = "Escape"
          THEN sidebarOpen' = FALSE /\ lastSidebarAction' = "Escape"
          ELSE UNCHANGED <<sidebarOpen, lastSidebarAction>>
    /\ UNCHANGED <<given, host, locals, webviewHtml, shownFrom>>

NextPreview ==
    \/ NextPass
    \/ ShowPreviewRejected
    \/ ShowPreviewOn(PreviewInputs)
    \/ CreatePreviewOn(PreviewInputs)
    \/ ChangeTextDocumentOn(PreviewInputs)
    \/ ClosePanel
    \/ ClickToggle
    \/ ClickClose
    \/ ClickOverlay
    \/ KeyDown

SpecPreview == InitPreview /\ [][NextPreview]_vars

-----------------------------------------------------------------------------
(* The heading-id injection loop on its own *)

\* the rendered headings of the records hs, in the order `order` gives
RECURSIVE RenderedHeadings(_, _, _)
RenderedHeadings(hs, order, i) ==
    IF i > Len(order) THEN <<>>
    ELSE HOpen(hs[order[i]].level) \o hs[order[i]].text \o HClose(hs[order[i]].level)
             \o RenderedHeadings(hs, order, i + 1)

\* the records in document order, or the last one first
TagOrders(n) == {[i \in 1..n |-> i], [i \in 1..n |-> n + 1 - i]}

InitInject ==
    /\ headings \in HeadingLists
    /\ \E order \in TagOrders(Len(headings)) :
          /\ html = RenderedHeadings(headings, order, 1)
          /\ tagLines = [i \in 1..Len(headings) |-> headings[order[i]].lineIndex]
    /\ pc = "inject"
    /\ text = <<>>
    /\ renderer = "marked"
    /\ document = DocumentInFolder
    /\ workspaceFolders = <<>>
    /\ conversionFails = {}
    /\ random = Stream(0, 1)
    /\ webviewHtml = <<>>
    /\ NoPanel
    /\ raw = <<>>
    /\ origin = <<>>
    /\ preservedBlocks = <<>>
    /\ extracted = <<>>
    /\ toc = <<>>
    /\ resolutions = <<>>
    /\ nonce = <<>>
    /\ returned = <<>>
    /\ shown = <<>>

\* headings.forEach(heading => { ... html = html.replace(headingTag, headingTagWithId); })
CallInjectIds ==
    /\ pc = "inject"
    /\ html' = InjectIds(html, headings, 1)
    /\ pc' = "inject-done"
    /\ UNCHANGED <<given, host, page, raw, origin, preservedBlocks, extracted, headings, tagLines, toc,
                   resolutions, nonce, returned, webviewHtml, shown>>

NextInject == CallInjectIds

SpecInject == InitInject /\ [][NextInject]_vars

-----------------------------------------------------------------------------
(* Properties *)

\* sub occurs in s
Contains(s, sub) ==
    \E i \in 1..(Len(s) - Len(sub) + 1) : SubSeq(s, i, i + Len(sub) - 1) = sub

Restored == pc \in {"restored", "resolved", "nonce", "done"}

AfterRestore == pc \in {"restored", "resolved", "nonce", "done", "failed"}

\* C1: with the identity renderer, a text in which no extraction pattern
\* matches comes back from extraction and restoration unchanged, and the pass
\* raises no error.
C1_RoundTrip ==
    (renderer = "identity" /\ AfterRestore /\ Len(extracted) = 0)
        => (pc # "failed" /\ html = text)

\* C2 as claimed: the content restoration substitutes for a block-math or
\* inline-math region is exactly the matched substring.
C2_Verbatim ==
    \A k \in 1..Len(extracted) :
        extracted[k].type \in {"math-block", "math-inline"}
            => preservedBlocks[k].content = extracted[k].matched

\* C2 as amended: inline math comes back exactly as matched; block math comes
\* back as $$, one newline, and the matched text behind the last newline of the
\* whitespace run that follows the opening $$ (both delimiters intact), which
\* is the matched substring exactly when that run is a single newline.
C2_Normalised ==
    \A k \in 1..Len(extracted) :
        LET m == extracted[k].matched
            c == preservedBlocks[k].content
        IN  /\ extracted[k].type = "math-inline" => c = m
            /\ extracted[k].type = "math-block" =>
                  \E j \in 3..Len(m) :
                      /\ m[j] = NL
                      /\ \A i \in 3..j : IsWs(m[i])
                      /\ \A i \in (j + 1)..RunEnd(m, 3, {" ", NL}) : m[i] # NL
                      /\ c = <<"$", "$", NL>> \o SubSeq(m, j + 1, Len(m))
                      /\ (c = m <=> j = 3)

\* a block-math region with white space before the newline was extracted and
\* restored in its normalised form
C2_Witness ==
    /\ Restored
    /\ \E k \in 1..Len(extracted) :
          /\ extracted[k].type = "math-block"
          /\ preservedBlocks[k].content # extracted[k].matched
          /\ Contains(html, preservedBlocks[k].content)
          /\ ~Contains(html, extracted[k].matched)

\* C3: with the identity renderer, after restoration no placeholder of this
\* pass is left in the HTML and the final markup of every extracted block is
\* in it.
C3_AllRestored ==
    (renderer = "identity" /\ Restored) =>
        \A k \in 1..Len(preservedBlocks) :
            /\ ~Contains(html, Placeholder(k - 1))
            /\ Contains(html, preservedBlocks[k].content)

\* the positions of text the block-math pattern matches, scanning text itself
BlockMathRegions ==
    LET r == ExtractPass(text, [i \in 1..Len(text) |-> i], "math-block", <<>>, <<>>)
    IN  {r.extracted[k].span : k \in 1..Len(r.extracted)}

SpansOf(kind) == {extracted[k].span : k \in {j \in 1..Len(extracted) : extracted[j].type = kind}}

\* C4: every region of the text the block-math pattern matches is captured by
\* the block-math pass, and the inline-math pass makes no block from a
\* character inside such a region.
C4_BlockMathFirst ==
    pc \notin {"start", "scanned", "block", "toc", "toc-done"} =>
        /\ SpansOf("math-block") = BlockMathRegions
        /\ \A b \in SpansOf("math-block") : \A i \in SpansOf("math-inline") : b \cap i = {}

\* a block-math region whose interior holds text of inline-math shape was
\* captured and the inline pass ran: it made no block
C4_Witness ==
    /\ pc = "inline"
    /\ Len(extracted) = 1
    /\ extracted[1].type = "math-block"
    /\ \E i \in extracted[1].span :
          /\ InlineMathAt(text, i).ok
          /\ InlineMathAt(text, i).end \in extracted[1].span

TypeRank(t) == CASE t = "math-block" -> 1 [] t = "math-inline" -> 2 [] t = "mermaid" -> 3

HeadingLinesOutsideFences ==
    LET lines == Split(text)
    IN  {i \in 1..Len(lines) :
            /\ ~IsFenceLine(lines[i])
            /\ HeadingMatch(lines[i]).ok
            /\ Cardinality({j \in 1..(i - 1) : IsFenceLine(lines[j])}) % 2 = 0}

Scanned == pc \notin {"start", "toc", "toc-done"}

\* C6: the heading list holds exactly the lines that match the heading
\* pattern outside every fence, in document order: no line between an opening
\* fence line and its closing fence line, and no fence line.
C6_FenceAware ==
    Scanned =>
        /\ {headings[k].lineIndex + 1 : k \in 1..Len(headings)} = HeadingLinesOutsideFences
        /\ \A k \in 1..Len(headings) : ~IsFenceLine(Split(text)[headings[k].lineIndex + 1])
        /\ \A j, k \in 1..Len(headings) : j < k => headings[j].lineIndex < headings[k].lineIndex

\* a heading line between an opening and a closing fence line was left out and
\* the same line behind the closing fence was recorded
C6_Witness ==
    /\ pc = "scanned"
    /\ LET lines == Split(text)
       IN  /\ Len(lines) = 4
           /\ IsFenceLine(lines[1])
           /\ HeadingMatch(lines[2]).ok
           /\ IsFenceLine(lines[3])
           /\ lines[4] = lines[2]
    /\ Len(headings) = 1
    /\ headings[1].lineIndex = 3

\* C7: the ids of one extractHeadings call are pairwise distinct; each ends
\* in the 0-based index of its line.
C7_DistinctIds ==
    Scanned =>
        /\ \A j, k \in 1..Len(headings) : j # k => headings[j].id # headings[k].id
        /\ \A k \in 1..Len(headings) :
              LET id == headings[k].id
                  ix == <<"-">> \o ToStr(headings[k].lineIndex)
              IN  SubSeq(id, Len(id) - Len(ix) + 1, Len(id)) = ix

\* three headings with the same text were recorded
C7_Witness ==
    /\ pc = "scanned"
    /\ Len(headings) = 3
    /\ headings[1].text = headings[2].text
    /\ headings[2].text = headings[3].text

\* the ids the links of a table of contents point to
LinkTargets(t) ==
    {SubSeq(t, p + 1, Min({q \in (p + 1)..Len(t) : t[q] = " class=toc-link>"}) - 1) :
        p \in {i \in 1..Len(t) : t[i] = "><a href=#"}}

\* the positions of the opening heading tags of h, and the rank of one of them
TagPositions(h) == {p \in 1..Len(h) : h[p] = "<h"}

TagRank(h, p) == Cardinality({q \in TagPositions(h) : q <= p})

\* the heading tag at position p carries id
Carries(h, p, id) ==
    /\ p + 3 + Len(id) <= Len(h)
    /\ SubSeq(h, p + 2, p + 3 + Len(id)) = <<" id=">> \o id \o <<">">>

\* C8: in the assembled document every link of the table of contents points
\* to an id carried by exactly one heading element, the one rendered from the
\* line of the link's Heading record.
C8_LinksHitTheirHeading ==
    (renderer = "marked" /\ pc = "done") =>
        \A k \in 1..Len(headings) :
            /\ headings[k].id \in LinkTargets(toc)
            /\ LET ps == {p \in TagPositions(html) : Carries(html, p, headings[k].id)}
               IN  /\ Cardinality(ps) = 1
                   /\ \A p \in ps : tagLines[TagRank(html, p)] = headings[k].lineIndex

\* the list depth of the k-th entry of a table of contents
ItemPos(t, k) ==
    CHOOSE p \in 1..Len(t) :
        /\ t[p] = "<li class=toc-item toc-level-"
        /\ Cardinality({q \in 1..p : t[q] = "<li class=toc-item toc-level-"}) = k

DepthAt(t, p) ==
    Cardinality({q \in 1..p : t[q] = UlOpen}) - Cardinality({q \in 1..p : t[q] = UlClose})

ItemDepth(t, k) == DepthAt(t, ItemPos(t, k))

Levels == [k \in 1..Len(headings) |-> headings[k].level]

C11_Placeholder ==
    pc = "toc-done" =>
        /\ Len(headings) = 0 =>
              /\ toc = <<NoHeadings>>
              /\ \A p \in 1..Len(toc) : toc[p] \notin {UlOpen, UlClose}
        /\ Len(headings) > 0 =>
              /\ \A p \in 1..Len(toc) : toc[p] # NoHeadings
              /\ toc[1] = UlOpen

\* generateTOC has returned for the empty heading list
C11_Witness == pc = "toc-done" /\ Len(headings) = 0 /\ toc = <<NoHeadings>>

\* the images of the pass have been handed to resolveImagePath
ImagesResolved == pc \in {"resolved", "nonce", "done"}

HasScheme(path) == path[1] \in {Http, Https, Data}

\* C12: resolveImagePath returns a path that begins with http://, https://
\* or data: unchanged and calls no URI service for it; resolving what it
\* returned once more gives the same value, whatever the services do.
C12_SchemePassThrough ==
    ImagesResolved =>
        \A k \in 1..Len(resolutions) :
            LET r == resolutions[k]
            IN  HasScheme(r.path) =>
                    /\ r.result = r.path
                    /\ r.calls = <<>>
                    /\ \A t \in BOOLEAN :
                          resolveImagePath(r.result, document, workspaceFolders, t).result = r.result

\* a data: path passed through next to a relative path that was converted
C12_Witness ==
    /\ pc = "done"
    /\ \E k, j \in 1..Len(resolutions) :
          /\ resolutions[k].path = <<Data, "a">>
          /\ resolutions[k].result = <<Data, "a">>
          /\ resolutions[j].path = <<"a">>
          /\ resolutions[j].result = <<WebviewUri, Slash, "w", Slash, "d", Slash, "a">>

\* the call of joinPath the resolver made for image k, if it made one
JoinCalls(r) == {c \in 1..Len(r.calls) : r.calls[c].op = "joinPath"}

\* C13: the rules of resolveImagePath apply in order and the first that
\* matches decides: a scheme path passes through; otherwise a path that
\* begins with "/" is joined to the first workspace folder and converted, or
\* returned unchanged when there is no workspace folder; otherwise the path is
\* joined to the directory of the document and converted (the conversion's
\* result is returned unless a service throws).
C13_RuleOrder ==
    ImagesResolved =>
        \A k \in 1..Len(resolutions) :
            LET r == resolutions[k]
                base == IF r.path[1] = Slash THEN workspaceFolders[1] ELSE DocumentDir(document)
            IN  IF HasScheme(r.path) \/ (r.path[1] = Slash /\ Len(workspaceFolders) = 0)
                THEN r.result = r.path /\ r.calls = <<>>
                ELSE /\ Len(r.calls) >= 1
                     /\ r.calls[1] = [op |-> "joinPath", uri |-> base, path |-> r.path]
                     /\ JoinCalls(r) = {1}
                     /\ (base.path # <<>> /\ k \notin conversionFails) =>
                            /\ Len(r.calls) = 2
                            /\ r.calls[2] = [op |-> "asWebviewUri", uri |-> JoinPath(base, r.path).uri,
                                              path |-> <<>>]
                            /\ r.result = <<WebviewUri>> \o JoinPath(base, r.path).uri.path

\* with a workspace folder /w and the document /w/d/x: /a becomes /w/a and
\* ../a becomes /w/a as well, through the document directory
C13_Witness ==
    /\ pc = "done"
    /\ document = DocumentInFolder
    /\ Len(workspaceFolders) = 2
    /\ Len(resolutions) = 2
    /\ resolutions[1].path = <<Slash, "a">>
    /\ resolutions[1].calls[1].uri = FileUri(<<Slash, "w">>)
    /\ resolutions[1].result = <<WebviewUri, Slash, "w", Slash, "a">>
    /\ resolutions[2].path = <<DotDot, Slash, "a">>
    /\ resolutions[2].calls[1].uri = FileUri(<<Slash, "w", Slash, "d">>)
    /\ resolutions[2].result = <<WebviewUri, Slash, "w", Slash, "a">>

\* joinPath or asWebviewUri threw for image k of the pass
Threw(k) ==
    LET r == resolutions[k]
    IN  /\ r.calls # <<>>
        /\ \/ r.calls[1].uri.path = <<>>
           \/ k \in conversionFails

\* C14: when joinPath or asWebviewUri throws for an image, resolveImagePath
\* returns that image's path as it was, the pass does not fail, every image
\* of the document is handed to the resolver and the others get their
\* converted path, and the document written to the panel holds the result.
C14_ThrowIsLocal ==
    /\ pc # "failed"
    /\ shown = <<>>
    /\ ImagesResolved =>
          /\ Len(resolutions) = Cardinality({p \in 1..Len(text) : text[p] = ImgOpen})
          /\ html = Join([k \in 1..Len(resolutions) |-> ImageTag(resolutions[k].result)])
          /\ \A k \in 1..Len(resolutions) :
                LET r == resolutions[k]
                IN  /\ Threw(k) => r.result = r.path
                    /\ (~Threw(k) /\ r.calls # <<>>) => r.result[1] = WebviewUri
    /\ pc = "done" =>
          webviewHtml = getWebviewContent(html, nonce, headings)

\* asWebviewUri threw for the first image; the second one is converted and
\* both are in the document on display
C14_Witness ==
    /\ pc = "done"
    /\ Len(resolutions) = 2
    /\ 1 \in conversionFails
    /\ Threw(1)
    /\ resolutions[1].result = <<"a">>
    /\ ~Threw(2)
    /\ resolutions[2].result = <<WebviewUri, Slash, "w", Slash, "d", Slash, "a">>
    /\ Contains(webviewHtml, ImageTag(<<"a">>) \o <<NL>> \o ImageTag(resolutions[2].result))

\* the letters A-Z and a-z and the digits 0-9
Alphanumeric ==
    {"A", "B", "C", "D", "E", "F", "G", "H", "I", "J", "K", "L", "M",
     "N", "O", "P", "Q", "R", "S", "T", "U", "V", "W", "X", "Y", "Z",
     "a", "b", "c", "d", "e", "f", "g", "h", "i", "j", "k", "l", "m",
     "n", "o", "p", "q", "r", "s", "t", "u", "v", "w", "x", "y", "z"} \cup DigitSet

Find(d, p, c) ==
    LET at == {q \in p..Len(d) : d[q] = c}
    IN  IF at = {} THEN 0 ELSE Min(at)

\* the token the content-restriction declaration of document d names
CspToken(d) == SubSeq(d, Find(d, 1, CspOpen) + 1, Find(d, 1, CspClose) - 1)

\* the value of the nonce attribute of the script tag that opens at p
NonceAttr(d, p) == SubSeq(d, p + 2, Find(d, p + 2, Quote) - 1)

\* the script tags getWebviewContent writes behind the body
EmittedTags(d) ==
    {p \in Max({q \in 1..Len(d) : d[q] = MainClose})..Len(d) :
        \E k \in 1..Len(ScriptOpeners) : d[p] = ScriptOpeners[k]}

\* C16: in an assembled document the token of the content-restriction
\* declaration and the nonce attribute of each of the three script tags
\* getWebviewContent writes are one value, the token generated in the pass
\* that assembled it.
C16_OneToken ==
    /\ Len(webviewHtml) > 0 =>
          /\ Cardinality(EmittedTags(webviewHtml)) = 3
          /\ \A p \in EmittedTags(webviewHtml) :
                NonceAttr(webviewHtml, p) = CspToken(webviewHtml)
          /\ Len(CspToken(webviewHtml)) = NonceLength
    /\ pc = "done" =>
          /\ returned = <<nonce>>
          /\ CspToken(webviewHtml) = nonce

\* a document assembled by a later pass of the session, with another token
\* than the document the pass replaced
C16_Witness ==
    /\ pc = "done"
    /\ CspToken(webviewHtml) = getNonce(Stream(RandomResolution - 1, 0))
    /\ \A p \in EmittedTags(webviewHtml) : NonceAttr(webviewHtml, p) = nonce
    /\ Contains(webviewHtml, <<"$", BareScript, "$">>)

\* the positions of document d where a script tag opens
ScriptTags(d) ==
    {p \in 1..Len(d) : d[p] = BareScript \/ \E k \in 1..Len(ScriptOpeners) : d[p] = ScriptOpeners[k]}

\* C17: in the document handed to the panel every script tag carries the
\* token of the pass, whatever the body holds.
C17_EveryScriptTagCarriesToken ==
    pc = "done" =>
        \A p \in ScriptTags(webviewHtml) :
            /\ webviewHtml[p] # BareScript
            /\ NonceAttr(webviewHtml, p) = nonce

\* a step of the pass that writes the panel
WritesPanel == pc = "nonce" /\ pc' = "done"

\* C18: every pass that writes the panel called getNonce exactly once
\* during that pass and embeds the value that call returned; a pass starts
\* without a token.
C18_FreshTokenPerPass ==
    [][/\ WritesPanel =>
             /\ returned = <<getNonce(random)>>
             /\ CspToken(webviewHtml') = returned[1]
             /\ \A p \in EmittedTags(webviewHtml') : NonceAttr(webviewHtml', p) = returned[1]
       /\ webviewHtml' # webviewHtml => WritesPanel
       /\ pc' = "start" => (nonce' = <<>> /\ returned' = <<>>)]_vars

\* a pass has generated its token while the panel still shows the document
\* of an earlier pass, which holds another token
C18_Witness ==
    /\ pc = "nonce"
    /\ Len(webviewHtml) > 0
    /\ returned = <<nonce>>
    /\ CspToken(webviewHtml) # nonce

\* C19: when the renderer throws, the pass shows an error message and the
\* panel keeps the document of the last pass that succeeded: the panel is
\* written only by the last step of a pass, with the complete document.
C19_FailureKeepsDocument ==
    [][/\ (pc = "extracted" /\ renderer = "throwing") =>
             /\ pc' = "failed"
             /\ webviewHtml' = webviewHtml
             /\ shown' = <<ErrorMessage>>
       /\ (pc' = "failed" /\ pc # "failed") =>
             (webviewHtml' = webviewHtml /\ shown' = <<ErrorMessage>>)
       /\ webviewHtml' # webviewHtml =>
             /\ WritesPanel
             /\ shown = <<>>
             /\ webviewHtml' = getWebviewContent(html, nonce, headings)]_vars

\* the renderer threw in a pass behind a pass that succeeded: the document
\* of that pass is still on display and the message has been shown
C19_Witness ==
    /\ pc = "failed"
    /\ renderer = "throwing"
    /\ shown = <<ErrorMessage>>
    /\ Len(webviewHtml) > 0
    /\ html = <<>>

\* C20: only the renderer can make a pass fail: when marked returns, the
\* pass completes.
C20_OnlyRendererAborts == pc = "failed" => renderer = "throwing"

\* C28: for a non-empty heading list the markup generateTOC returns is well
\* nested: no prefix holds more closing </ul> tags than opening <ul> tags,
\* and the complete markup holds as many of the one as of the other.
C28_WellNested ==
    (pc = "toc-done" /\ Len(headings) > 0) =>
        /\ \A p \in 1..Len(toc) : DepthAt(toc, p) >= 0
        /\ DepthAt(toc, Len(toc)) = 0

\* currentLevel when the markup up to position p has been written: the
\* counter goes up with every <ul> the loops write and down with every
\* </ul>; the <ul> written before the loops is not counted
CounterAt(t, p) == DepthAt(t, p) - 1

\* C29: when the <li> of a heading is written the level counter equals the
\* level of that heading, whatever the order of the levels, so the depth of
\* an entry depends on its own level alone; at the end the counter is 0.
C29_CounterIsLevel ==
    (pc = "toc-done" /\ Len(headings) > 0) =>
        /\ \A k \in 1..Len(headings) : CounterAt(toc, ItemPos(toc, k)) = Levels[k]
        /\ CounterAt(toc, Len(toc)) = 0

\* levels that fall, rise by more than one and repeat
C29_Witness ==
    /\ pc = "toc-done"
    /\ Levels = <<4, 2, 6, 6>>
    /\ CounterAt(toc, ItemPos(toc, 3)) = 6
    /\ CounterAt(toc, ItemPos(toc, 2)) = 2

\* the position of the i-th heading tag of h
TagAt(h, i) == CHOOSE p \in TagPositions(h) : TagRank(h, p) = i

\* the levels of the heading tags of h, in order
TagLevels(h) == [i \in 1..Cardinality(TagPositions(h)) |-> DigitVal(h[TagAt(h, i) + 1])]

\* C26: when the rendered HTML holds one bare <hN> tag per Heading record,
\* level by level in the order of the records, then after the injection loop
\* the i-th heading tag carries the id of the i-th record, every id is on
\* exactly one tag and no bare heading tag is left.
C26_InOrder ==
    (pc = "inject-done" /\ TagLevels(html) = Levels) =>
        /\ \A i \in 1..Len(headings) :
              /\ Carries(html, TagAt(html, i), headings[i].id)
              /\ Cardinality({p \in TagPositions(html) : Carries(html, p, headings[i].id)}) = 1
        /\ \A p \in TagPositions(html) : html[p + 2] # ">"

\* two headings of level 2 around one of level 1, each tag with its record's id
C26_Witness ==
    /\ pc = "inject-done"
    /\ Levels = <<2, 1, 2>>
    /\ tagLines = <<0, 1, 2>>
    /\ html = HOpenWithId(2, headings[1].id) \o <<"x">> \o HClose(2)
                \o HOpenWithId(1, headings[2].id) \o <<"x">> \o HClose(1)
                \o HOpenWithId(2, headings[3].id) \o <<"x">> \o HClose(2)

\* updateWebviewContent as a function of what one call is given: the text,
\* the document uri, the workspace folders, the answers of the services and
\* the token
PassResult(t, doc, folders, fails, which, token) ==
    LET hs == extractHeadings(t)
        e0 == [raw |-> t, origin |-> [i \in 1..Len(t) |-> i], blocks |-> <<>>, extracted |-> <<>>]
        e1 == ExtractPass(e0.raw, e0.origin, PassOrder[1], e0.blocks, e0.extracted)
        e2 == ExtractPass(e1.raw, e1.origin, PassOrder[2], e1.blocks, e1.extracted)
        e3 == ExtractPass(e2.raw, e2.origin, PassOrder[3], e2.blocks, e2.extracted)
        injected == InjectIds(marked(e3.raw, e3.origin, t, which).html, hs, 1)
        restored == Restore(injected, e3.blocks)
        body == ResolveFrom(restored.html, 1, 0, doc, folders, fails).html
    IN  IF which = "throwing" \/ ~restored.ok THEN [ok |-> FALSE, body |-> <<>>, html |-> <<>>]
        ELSE [ok |-> TRUE, body |-> body, html |-> getWebviewContent(body, token, hs)]

\* C21: what a pass produces depends only on what that pass is given, its
\* text, document uri, workspace folders and token (and the answers of the
\* renderer and the URI service): whatever passes ran before it, failed ones
\* included, it ends as a first pass on the same input ends.
C21_PassesIndependent ==
    LET r == PassResult(text, document, workspaceFolders, conversionFails, renderer, nonce)
    IN  /\ pc = "failed" => ~r.ok
        /\ pc \in {"nonce", "done"} => (r.ok /\ html = r.body)
        /\ pc = "done" => webviewHtml = r.html

\* a pass on a placeholder-shaped comment fails while the panel shows the
\* document of an earlier pass that had a block in its list
C21_Witness ==
    /\ pc = "failed"
    /\ renderer = "escaping"
    /\ text = <<PhOpen, "0", PhClose>>
    /\ Contains(webviewHtml, <<"$", BareScript, "$">>)

\* an event of the given kind is delivered in this step
Event(kind) == lastEvent' # lastEvent /\ lastEvent'.kind = kind

\* C22: over any sequence of commands, document changes and panel closings
\* at most one panel exists; the command creates a panel only when none is
\* open, and otherwise keeps the open panel and starts a pass on it with the
\* active document.
C22_SinglePanel ==
    [][/\ Cardinality(panels') <= 1
       /\ currentPanel' # 0 => panels' = {currentPanel'}
       /\ panels' \ panels # {} => (panels = {} /\ Event("command"))
       /\ (Event("command") /\ lastEvent'.uri # NoDocument) =>
             /\ pc' = "start"
             /\ document' = lastEvent'.uri
             /\ currentDocument' = lastEvent'.uri
             /\ panels # {} => (panels' = panels /\ currentPanel' = currentPanel /\ webviewHtml' = webviewHtml)
             /\ panels = {} => (Cardinality(panels') = 1 /\ currentPanel' \in panels')]_vars

\* the command arrived while the panel showed a page: the panel is kept and a pass starts
C22_Witness ==
    /\ pc = "start"
    /\ lastEvent.kind = "command"
    /\ Len(webviewHtml) > 0
    /\ panels = {1}
    /\ document # shownFrom.uri

\* C23: a change event starts a pass if and only if a panel is open and the
\* changed document is currentDocument; a change of any other document leaves
\* the displayed HTML, currentPanel and currentDocument as they are.
C23_ChangeEvent ==
    [][Event("change") =>
         /\ pc' = "start" <=> (currentPanel # 0 /\ lastEvent'.uri = currentDocument)
         /\ pc' = "start" => (document' = lastEvent'.uri /\ currentPanel' = currentPanel)
         /\ lastEvent'.uri # currentDocument =>
               (webviewHtml' = webviewHtml /\ currentPanel' = currentPanel /\ currentDocument' = currentDocument)]_vars

\* a change of the document on display has started a pass
C23_Witness ==
    /\ pc = "start"
    /\ lastEvent.kind = "change"
    /\ lastEvent.uri = currentDocument
    /\ Len(webviewHtml) > 0

\* C24: closing the panel resets currentPanel and currentDocument; while no
\* panel is open only the command starts a pass, HTML is written only to an
\* open panel, and currentPanel is defined exactly when currentDocument is.
C24_CloseResets ==
    [][/\ (currentPanel = 0) <=> (currentDocument = NoDocument)
       /\ (currentPanel' = 0) <=> (currentDocument' = NoDocument)
       /\ Event("close") => (currentPanel' = 0 /\ currentDocument' = NoDocument)
       /\ (currentPanel = 0 /\ ~Event("command")) => (pc' = pc /\ currentPanel' = 0)
       /\ (webviewHtml' # webviewHtml /\ webviewHtml' # <<>>) => (currentPanel \in panels /\ currentPanel' = currentPanel)]_vars

\* after a pass was shown the panel was closed, and a change of a document was ignored
C24_Witness ==
    /\ currentPanel = 0
    /\ panels = {}
    /\ lastEvent.kind = "change"
    /\ pc = "done"

\* C30: whenever a panel is open and shows rendered output, the output was
\* produced from a text of the document recorded in currentDocument.
C30_ShownFromCurrent ==
    (AtRest /\ currentPanel # 0 /\ Len(webviewHtml) > 0) => shownFrom.uri = currentDocument

\* C27: the sidebar starts closed, a click on the toggle opens it, and it
\* stays open until the close button, the overlay or Escape: as long as the
\* user's last sidebar action in the panel is the click on the toggle, the
\* sidebar is open, whatever else happened since, a live update included.
C27_SidebarStaysOpen ==
    /\ (PageShown /\ lastSidebarAction = "none") => ~sidebarOpen
    /\ (PageShown /\ lastSidebarAction = "toggle") => sidebarOpen

\* every position of document d where a script tag opens, with or without src
AllScripts(d) ==
    {p \in 1..Len(d) : d[p] \in {BareScript, CdnScript} \/ \E k \in 1..Len(ScriptOpeners) : d[p] = ScriptOpeners[k]}

HasNonceAttr(tag) == \E k \in 1..Len(ScriptOpeners) : tag = ScriptOpeners[k]

\* the host of the src of a script tag ("inline": the tag has no src)
ScriptSrc(tag) ==
    IF tag \in {CdnScript, ScriptOpeners[1], ScriptOpeners[2]} THEN CdnHost ELSE "inline"

\* the hosts the script-src directive of document d lists
CspHosts(d) == IF Find(d, 1, CspClose) > 0 THEN {CdnHost} ELSE {}

\* script-src 'nonce-N' https://cdn.jsdelivr.net: a script runs if its
\* nonce attribute is N or its src is on a listed host
Permits(d, p) ==
    \/ HasNonceAttr(d[p]) /\ NonceAttr(d, p) = CspToken(d)
    \/ ScriptSrc(d[p]) \in CspHosts(d)

\* C25: the content-restriction declaration of an assembled document lets a
\* script run only if it carries the nonce of the pass; a script tag in the
\* body without that nonce is blocked, whatever its src.
C25_OnlyNoncedScriptsRun ==
    pc = "done" =>
        \A p \in AllScripts(webviewHtml) :
            Permits(webviewHtml, p) => (HasNonceAttr(webviewHtml[p]) /\ NonceAttr(webviewHtml, p) = nonce)

====
